---- MODULE Spec2Model ----
(***************************************************************************)
(* Model of the appearance pipeline of bandy-stat (analyze_players.py):    *)
(* fetch_player_appearances, the per-player loop of analyze_trupp, the     *)
(* CSV round trip, safe_int, the two pivots, the validation and the two    *)
(* chart artifacts.                                                        *)
(*                                                                         *)
(* Text is a sequence of one-character strings, so that strip(), isdigit() *)
(* upper() and int() are computed character by character.                  *)
(***************************************************************************)
EXTENDS Integers, Sequences, FiniteSets, TLC

\* ------------------------------------------------------------------ bounds
\* longest text drawn as an input of the pure text functions
MaxLen == 3
\* rows of one player page
MaxRows == 2
\* roster entries of one run
MaxRoster == 2
\* body rows read in one run, over all player pages
MaxRecords == 2

\* ------------------------------------------------------------ text helpers
Whitespace == {" ", "\t", "\n"}

DigitSeq == <<"0", "1", "2", "3", "4", "5", "6", "7", "8", "9">>

Digits == {DigitSeq[i] : i \in 1..10}

DigitVal(c) == (CHOOSE i \in 1..10 : DigitSeq[i] = c) - 1

LowerSeq == <<"a", "b", "c", "d", "e", "f", "g", "h", "i", "j", "k", "l", "m",
              "n", "o", "p", "q", "r", "s", "t", "u", "v", "w", "x", "y", "z",
              "ä", "å", "ö">>

UpperSeq == <<"A", "B", "C", "D", "E", "F", "G", "H", "I", "J", "K", "L", "M",
              "N", "O", "P", "Q", "R", "S", "T", "U", "V", "W", "X", "Y", "Z",
              "Ä", "Å", "Ö">>

\* the characters of the model in code point order
CharOrder == <<"\t", "\n", " ", "#", "+", "-", ".", "/">> \o DigitSeq
             \o <<":", "?">> \o SubSeq(UpperSeq, 1, 26) \o <<"_">>
             \o SubSeq(LowerSeq, 1, 26) \o <<"Ä", "Å", "Ö", "ä", "å", "ö">>

CodePoint(c) == CHOOSE i \in 1..Len(CharOrder) : CharOrder[i] = c

\* s < t for str: lexicographic by code point
RECURSIVE TextLess(_, _)
TextLess(s, t) ==
    IF t = <<>> THEN FALSE
    ELSE IF s = <<>> THEN TRUE
    ELSE IF Head(s) = Head(t) THEN TextLess(Tail(s), Tail(t))
    ELSE CodePoint(Head(s)) < CodePoint(Head(t))

\* sorted(S) for a set of str
RECURSIVE SortedTexts(_)
SortedTexts(S) ==
    IF S = {} THEN <<>>
    ELSE LET m == CHOOSE x \in S : \A y \in S \ {x} : TextLess(x, y)
         IN  <<m>> \o SortedTexts(S \ {m})

Chars == {CharOrder[i] : i \in 1..Len(CharOrder)}

\* str.upper() on one character
UpperChar ==
    [c \in Chars |->
        IF \E i \in 1..Len(LowerSeq) : LowerSeq[i] = c
        THEN UpperSeq[CHOOSE i \in 1..Len(LowerSeq) : LowerSeq[i] = c]
        ELSE c]

\* str.lower() on one character
LowerChar ==
    [c \in Chars |->
        IF \E i \in 1..Len(UpperSeq) : UpperSeq[i] = c
        THEN LowerSeq[CHOOSE i \in 1..Len(UpperSeq) : UpperSeq[i] = c]
        ELSE c]

Upper(s) == [i \in 1..Len(s) |-> UpperChar[s[i]]]

Lower(s) == [i \in 1..Len(s) |-> LowerChar[s[i]]]

RECURSIVE LStrip(_)
LStrip(s) == IF s # <<>> /\ Head(s) \in Whitespace THEN LStrip(Tail(s)) ELSE s

RECURSIVE RStrip(_)
RStrip(s) ==
    IF s # <<>> /\ s[Len(s)] \in Whitespace
    THEN RStrip(SubSeq(s, 1, Len(s) - 1))
    ELSE s

\* str.strip()
Strip(s) == RStrip(LStrip(s))

\* str.isdigit(): non-empty and every character a digit
IsDigit(s) == s # <<>> /\ \A i \in 1..Len(s) : s[i] \in Digits

\* every text of at most n characters over the alphabet A
TextsUpTo(A, n) == UNION {[1..k -> A] : k \in 0..n}

\* ------------------------------------------------------- python values
\* A cell of a data frame: a str, an int, a float or a missing value.
\* A float is kept in tenths, so that int() of it truncates.
PyStr(s) == [k |-> "str", s |-> s, v |-> 0]

PyInt(n) == [k |-> "int", s |-> <<>>, v |-> n]

PyFloat(tenths) == [k |-> "float", s |-> <<>>, v |-> tenths]

NaN == [k |-> "nan", s |-> <<>>, v |-> 0]

PyNone == [k |-> "none", s |-> <<>>, v |-> 0]

PyInf == [k |-> "inf", s |-> <<>>, v |-> 0]

\* the digits-and-underscores body of an int literal: digits, single
\* underscores only between two digits
IntBodyOk(s) ==
    /\ s # <<>>
    /\ \A i \in 1..Len(s) : s[i] \in Digits \cup {"_"}
    /\ s[1] # "_"
    /\ s[Len(s)] # "_"
    /\ \A i \in 1..(Len(s) - 1) : ~(s[i] = "_" /\ s[i + 1] = "_")

RECURSIVE IntBodyVal(_, _)
IntBodyVal(s, acc) ==
    IF s = <<>> THEN acc
    ELSE IF Head(s) = "_" THEN IntBodyVal(Tail(s), acc)
    ELSE IntBodyVal(Tail(s), 10 * acc + DigitVal(Head(s)))

\* int(x) of a str: surrounding whitespace stripped, an optional sign;
\* exc names the exception int() raises, "none" when it returns val
IntOfText(s) ==
    LET t == Strip(s)
        signed == t # <<>> /\ t[1] \in {"+", "-"}
        body == IF signed THEN Tail(t) ELSE t
    IN  IF IntBodyOk(body)
        THEN [exc |-> "none",
              val |-> IF signed /\ t[1] = "-"
                      THEN 0 - IntBodyVal(body, 0)
                      ELSE IntBodyVal(body, 0)]
        ELSE [exc |-> "ValueError", val |-> 0]

\* int(x)
int(x) ==
    CASE x.k = "int" -> [exc |-> "none", val |-> x.v]
      [] x.k = "str" -> IntOfText(x.s)
      [] x.k = "float" ->
            [exc |-> "none",
             val |-> IF x.v >= 0 THEN x.v \div 10 ELSE 0 - ((0 - x.v) \div 10)]
      [] x.k = "nan" -> [exc |-> "ValueError", val |-> 0]
      [] x.k = "inf" -> [exc |-> "OverflowError", val |-> 0]
      [] OTHER -> [exc |-> "TypeError", val |-> 0]

\* the exceptions "except Exception" catches
ExceptionClasses == {"ValueError", "TypeError", "OverflowError"}

\* safe_int with "except ValueError": a TypeError or OverflowError escapes
safe_int_value_error_only(x) ==
    IF int(x).exc = "none" THEN [exc |-> "none", val |-> int(x).val]
    ELSE IF int(x).exc = "ValueError" THEN [exc |-> "none", val |-> 0]
    ELSE [exc |-> int(x).exc, val |-> 0]

\* analyze_trupp.safe_int: try: return int(x); except Exception: return 0.
\* exc names the exception that escapes safe_int, "none" when it returns val
safe_int(x) ==
    IF int(x).exc = "none" THEN [exc |-> "none", val |-> int(x).val]
    ELSE IF int(x).exc \in ExceptionClasses THEN [exc |-> "none", val |-> 0]
    ELSE [exc |-> int(x).exc, val |-> 0]

\* str(x) as an f-string formats it
StrOf(x) ==
    CASE x.k = "str" -> x.s
      [] x.k = "nan" -> <<"n", "a", "n">>
      [] OTHER -> <<"N", "o", "n", "e">>

\* bool(x): None and the empty str are falsy, NaN is not
Truthy(x) == ~(x.k = "none" \/ (x.k = "str" /\ x.s = <<>>))

\* x or y
PyOr(x, y) == IF Truthy(x) THEN x ELSE y

\* s.startswith(p)
StartsWith(s, p) == Len(s) >= Len(p) /\ SubSeq(s, 1, Len(p)) = p

\* p in s
Contains(s, p) ==
    \E i \in 0..(Len(s) - Len(p)) : SubSeq(s, i + 1, i + Len(p)) = p

\* ------------------------------------------------------------ input data
T_Div1 == <<"D", "i", "v", "1">>

T_Div2 == <<"D", "i", "v", "2">>

T_Totalt == <<"T", "o", "t", "a", "l", "t">>

T_TOTALT == <<"T", "O", "T", "A", "L", "T">>

T_NA == <<"N", "A">>

T_12 == <<"1", "2">>

\* the site's base URL
BASE_URL == <<"h", "t", "t", "p", "s", ":", "/", "/", "s">>

T_http == <<"h", "t", "t", "p">>

\* the header row of a player's season table
StdHeaders == << <<"T", "ä", "v", "l", "i", "n", "g">>, <<"L", "a", "g">>,
                 <<"M", "A">>, <<"M", "Å">>, <<"A", "s", "s">>, <<"P">>,
                 <<"U", "t", "v">> >>

\* the cells of one body row: competition, team, matches and four more
Cells(comp, team, ma) == <<comp, team, ma, <<"0">>, <<"0">>, <<"0">>, <<"0">> >>

\* the body rows a page may hold: kept rows (one padded, two teams of one
\* division), a non-numeric match count, a grand total, a competition text
\* that reads as a missing value, blank and all-digit competitions
BodyRows ==
    { Cells(T_Div1, <<"X">>, <<"2">>),
      Cells(<<" ">> \o T_Div1, <<"Y">>, <<"3">>),
      Cells(T_Div2, <<"X">>, <<"3">>),
      Cells(T_Div2, <<"Y">>, <<"x">>),
      Cells(T_Totalt, <<>>, <<"2">>),
      Cells(T_NA, <<"X">>, <<"2">>),
      Cells(<<" ">>, <<"X">>, <<"2">>),
      Cells(T_12, <<"X">>, <<"2">>) }

RowSeqs == UNION {[1..k -> BodyRows] : k \in 0..MaxRows}

NoTable == [headers |-> <<>>, rows |-> <<>>, present |-> FALSE]

Table(h, r) == [headers |-> h, rows |-> r, present |-> TRUE]

\* A page: the table that follows the 2025/26 heading (or none) and the
\* first table of the page (or none).
Pages ==
    {[season |-> NoTable, first |-> NoTable]}
    \cup {[season |-> NoTable, first |-> Table(StdHeaders, r)] : r \in RowSeqs}
    \cup {[season |-> Table(StdHeaders, r), first |-> Table(<<>>, r)] :
              r \in {q \in RowSeqs : Len(q) = 1}}

\* the roster rows of a run: namn (site header), name, position, href
Entry(namn, name, position, href) ==
    [namn |-> namn, name |-> name, position |-> position, href |-> href]

RosterRows ==
    { Entry(PyNone, PyStr(<<"A">>), PyStr(<<"F", "o", "r", "w", "a", "r", "d">>),
            PyStr(<<"/", "5">>)),
      Entry(PyNone, PyStr(<<"B">>), PyStr(<<"b", "a", "c", "k">>),
            PyStr(T_http \o <<":", "/", "/", "s", "/", "6">>)),
      Entry(PyNone, PyStr(<<"C">>), PyStr(<<"M", "å", "l">>), NaN),
      Entry(PyNone, PyStr(<<"D">>), NaN, PyStr(<<"7">>)) }

Rosters == UNION {[1..k -> RosterRows] : k \in 0..MaxRoster}

\* the values of --max-divisions and --max-leagues of a run: unlimited, or
\* one division and one league
CapPairs == {<<0, 0>>, <<1, 1>>}

\* ------------------------------------------------------------------ state
VARIABLES
    trupp,          \* the roster handed to analyze_trupp
    max_divisions,  \* analyze_trupp's parameter
    max_leagues,    \* analyze_trupp's parameter
    pc,             \* where the run is
    idx,            \* the roster row the loop is at (1-based)
    player_label,   \* the label of the row being fetched
    href_full,      \* the URL handed to fetch_player_appearances
    playwright,     \* the sync_playwright() session: none, running, stopped
    browser,        \* the launched browser: none, open, closed
    page,           \* the page navigated to, <<>> before navigation
    rows,           \* fetch_player_appearances' rows
    appearances,    \* the flat appearance list
    app_csv,        \* the appearance artifact: <<>> or <<the table>>
    df_app,         \* the working set
    df_total,       \* the reference-total table
    pivot,          \* the player-by-division matrix
    chart1,         \* the stacked-matches chart artifact: <<>> or <<matrix>>
    players_per_league, \* the division-by-player matrix
    chart2,         \* the players-per-league chart artifact
    messages,       \* what the run printed (failures, no-data notes, warnings)
    raised,         \* the exception that escaped analyze_trupp, or "none"
    arg,            \* the input of the pure function under check
    ret             \* its result

vars == <<trupp, max_divisions, max_leagues, pc, idx, player_label, href_full,
          playwright, browser, page, rows, appearances, app_csv, df_app,
          df_total, pivot, chart1, players_per_league, chart2, messages,
          raised, arg, ret>>

loopVars == <<idx, player_label, href_full>>

fetchVars == <<playwright, browser, page, rows>>

frameVars == <<app_csv, df_app, df_total, pivot, chart1, players_per_league,
               chart2>>

inputVars == <<trupp, max_divisions, max_leagues>>

pureVars == <<arg, ret>>

EmptyMatrix == [index |-> <<>>, columns |-> <<>>, cell |-> <<>>]

\* everything but the inputs, as analyze_trupp finds it when called
Fresh ==
    /\ idx = 1
    /\ player_label = <<>>
    /\ href_full = <<>>
    /\ playwright = "none"
    /\ browser = "none"
    /\ page = <<>>
    /\ rows = <<>>
    /\ appearances = <<>>
    /\ app_csv = <<>>
    /\ df_app = <<>>
    /\ df_total = <<>>
    /\ pivot = EmptyMatrix
    /\ chart1 = <<>>
    /\ players_per_league = EmptyMatrix
    /\ chart2 = <<>>
    /\ messages = <<>>
    /\ raised = "none"

Init ==
    /\ trupp \in Rosters
    /\ \E c \in CapPairs : max_divisions = c[1] /\ max_leagues = c[2]
    /\ pc = "loop"
    /\ Fresh
    /\ arg = <<>>
    /\ ret = <<>>

\* ------------------------------------------- fetch_player_appearances
\* season_table: the table after the 2025/26 heading, else the first table
SeasonTable(pg) == IF pg.season.present THEN pg.season ELSE pg.first

\* [th.inner_text().strip() ...], lower-cased as col_map's keys are
ColKeys(headers) == [i \in 1..Len(headers) |-> Lower(Strip(headers[i]))]

\* "key in col_map"
InColMap(keys, key) == \E i \in 1..Len(keys) : keys[i] = key

\* col_map[key]: a dict built in header order keeps the last index of a key
ColMap(keys, key) ==
    CHOOSE i \in 1..Len(keys) :
        keys[i] = key /\ \A j \in (i + 1)..Len(keys) : keys[j] # key

\* tds[col_map.get(key, default)].inner_text().strip() if key in col_map else ""
Field(keys, tds, key) ==
    IF InColMap(keys, key) THEN Strip(tds[ColMap(keys, key)]) ELSE <<>>

\* row_data of one body row
RowData(keys, tds) ==
    [competition |-> Field(keys, tds, <<"t", "ä", "v", "l", "i", "n", "g">>),
     team |-> Field(keys, tds, <<"l", "a", "g">>),
     matches |-> Field(keys, tds, <<"m", "a">>),
     goals |-> Field(keys, tds, <<"m", "å">>),
     assists |-> Field(keys, tds, <<"a", "s", "s">>),
     points |-> Field(keys, tds, <<"p">>),
     penalty |-> Field(keys, tds, <<"u", "t", "v">>)]

\* "if not tds or len(tds) < len(headers): continue"
RowSkipped(headers, tds) == tds = <<>> \/ Len(tds) < Len(headers)

\* the rows the body of "if season_table:" appends, in page order
RECURSIVE TableRows(_, _)
TableRows(headers, trs) ==
    IF trs = <<>> THEN <<>>
    ELSE IF RowSkipped(headers, Head(trs)) THEN TableRows(headers, Tail(trs))
    ELSE <<RowData(ColKeys(headers), Head(trs))>>
         \o TableRows(headers, Tail(trs))

\* rows of a page: nothing when no table is found
ExtractRows(pg) ==
    IF SeasonTable(pg).present
    THEN TableRows(SeasonTable(pg).headers, SeasonTable(pg).rows)
    ELSE <<>>

\* --------------------------------------------- analyze_trupp, the loop
\* the filter kept when the all-digit test is forgotten
KeepRowNoDigitTest(comp) == ~(comp = <<>> \/ Strip(comp) = <<>>)

\* not (not comp or comp.strip() == "" or comp.strip().isdigit())
KeepRow(comp) == ~(comp = <<>> \/ Strip(comp) = <<>> \/ IsDigit(Strip(comp)))

\* the dict appended for a kept row
Record(label, pr) ==
    [player |-> label, division |-> Strip(pr.competition), team |-> pr.team,
     matches |-> pr.matches, goals |-> pr.goals, assists |-> pr.assists,
     points |-> pr.points, penalty |-> pr.penalty]

\* what "for pr in player_rows" appends for one player
RECURSIVE KeptRecords(_, _)
KeptRecords(label, prs) ==
    IF prs = <<>> THEN <<>>
    ELSE IF KeepRow(Head(prs).competition)
    THEN <<Record(label, Head(prs))>> \o KeptRecords(label, Tail(prs))
    ELSE KeptRecords(label, Tail(prs))

\* "not isinstance(href, str) or not href.strip()"
HrefBlank(href) == href.k # "str" \/ Strip(href.s) = <<>>

\* href made absolute
HrefFull(href) ==
    IF StartsWith(href, <<"/">>) THEN BASE_URL \o href
    ELSE IF StartsWith(href, T_http) THEN href
    ELSE BASE_URL \o <<"/">> \o href

\* F, B, M or ? from the position text
PosPrefix(position) ==
    IF Contains(Lower(position), <<"f", "o", "r", "w">>) THEN <<"F">>
    ELSE IF Contains(Lower(position), <<"b", "a", "c", "k">>) THEN <<"B">>
    ELSE IF Contains(Lower(position), <<"m", "å", "l">>) THEN <<"M">>
    ELSE <<"?">>

\* f"{pos_prefix}-{name}", name = row.get("namn") or row.get("name")
PlayerLabel(row) ==
    PosPrefix(row.position.s) \o <<"-">> \o StrOf(PyOr(row.namn, row.name))

Failed(label) == [msg |-> "Failed to fetch", player |-> label, a |-> 0, b |-> 0]

Note(text) == [msg |-> text, player |-> <<>>, a |-> 0, b |-> 0]

\* the for loop is exhausted
LoopExit ==
    /\ pc = "loop"
    /\ idx > Len(trupp)
    /\ pc' = "after_loop"
    /\ UNCHANGED <<inputVars, loopVars, fetchVars, appearances, frameVars,
                   messages, raised, pureVars>>

\* a roster row without a link: continue
SkipEntry ==
    /\ pc = "loop"
    /\ idx <= Len(trupp)
    /\ HrefBlank(trupp[idx].href)
    /\ idx' = idx + 1
    /\ UNCHANGED <<inputVars, pc, player_label, href_full, fetchVars,
                   appearances, frameVars, messages, raised, pureVars>>

\* position.lower() on a position that is no str: AttributeError, outside
\* the try
PositionRaises ==
    /\ pc = "loop"
    /\ idx <= Len(trupp)
    /\ ~HrefBlank(trupp[idx].href)
    /\ trupp[idx].position.k # "str"
    /\ raised' = "AttributeError: lower"
    /\ pc' = "raised"
    /\ href_full' = HrefFull(trupp[idx].href.s)
    /\ UNCHANGED <<inputVars, idx, player_label, fetchVars, appearances,
                   frameVars, messages, pureVars>>

\* link and label resolved, the try block entered
PrepareFetch ==
    /\ pc = "loop"
    /\ idx <= Len(trupp)
    /\ ~HrefBlank(trupp[idx].href)
    /\ trupp[idx].position.k = "str"
    /\ href_full' = HrefFull(trupp[idx].href.s)
    /\ player_label' = PlayerLabel(trupp[idx])
    /\ pc' = "fetch"
    /\ UNCHANGED <<inputVars, idx, fetchVars, appearances, frameVars,
                   messages, raised, pureVars>>

\* sync_playwright().__enter__, chromium.launch, new_page
Launch ==
    /\ pc = "fetch"
    /\ playwright' = "running"
    /\ browser' = "open"
    /\ page' = <<>>
    /\ rows' = <<>>
    /\ pc' = "goto"
    /\ UNCHANGED <<inputVars, loopVars, appearances, frameVars, messages,
                   raised, pureVars>>

\* page.goto, cookies, the wait: the page is loaded
GotoFrom(site) ==
    /\ pc = "goto"
    /\ \E pg \in site :
          /\ Len(appearances) + Len(SeasonTable(pg).rows) <= MaxRecords
          /\ page' = <<pg>>
    /\ pc' = "extract"
    /\ UNCHANGED <<inputVars, loopVars, playwright, browser, rows,
                   appearances, frameVars, messages, raised, pureVars>>

Goto == GotoFrom(Pages)

\* page.goto raises (timeout, network)
GotoRaises ==
    /\ pc = "goto"
    /\ pc' = "fetch_raise"
    /\ UNCHANGED <<inputVars, loopVars, fetchVars, appearances, frameVars,
                   messages, raised, pureVars>>

\* table selection and the row loop
Extract ==
    /\ pc = "extract"
    /\ rows' = ExtractRows(page[1])
    /\ page' = <<>>
    /\ pc' = "close"
    /\ UNCHANGED <<inputVars, loopVars, playwright, browser, appearances,
                   frameVars, messages, raised, pureVars>>

\* a query on the page raises during extraction
ExtractRaises ==
    /\ pc = "extract"
    /\ page' = <<>>
    /\ pc' = "fetch_raise"
    /\ UNCHANGED <<inputVars, loopVars, playwright, browser, rows,
                   appearances, frameVars, messages, raised, pureVars>>

\* browser.close(), the last statement of the with block
CloseBrowser ==
    /\ pc = "close"
    /\ browser' = "closed"
    /\ pc' = "exit_with"
    /\ UNCHANGED <<inputVars, loopVars, playwright, page, rows, appearances,
                   frameVars, messages, raised, pureVars>>

\* a driver that stops and leaves its browsers as they are
LeftAsIs(b) == b

\* Leaving "with sync_playwright()" stops the Playwright driver, and the
\* driver closes on its way out every browser it launched that is still open.
Reaped(b) == IF b = "open" THEN "reaped" ELSE b

\* the with block left normally: return rows
ExitWith ==
    /\ pc = "exit_with"
    /\ playwright' = "stopped"
    /\ browser' = Reaped(browser)
    /\ pc' = "rows"
    /\ UNCHANGED <<inputVars, loopVars, page, rows, appearances, frameVars,
                   messages, raised, pureVars>>

\* the raise path when the driver were left running: nothing is released
ExitWithoutStop ==
    /\ pc = "fetch_raise"
    /\ pc' = "except"
    /\ UNCHANGED <<inputVars, loopVars, fetchVars, appearances, frameVars,
                   messages, raised, pureVars>>

\* the with block left by the exception: browser.close() was not reached,
\* __exit__ stops the driver
ExitWithRaise ==
    /\ pc = "fetch_raise"
    /\ playwright' = "stopped"
    /\ browser' = Reaped(browser)
    /\ pc' = "except"
    /\ UNCHANGED <<inputVars, loopVars, page, rows, appearances, frameVars,
                   messages, raised, pureVars>>

\* the except branch when it lets the failure escape
CatchFailureReraises ==
    /\ pc = "except"
    /\ raised' = "fetch failure"
    /\ pc' = "raised"
    /\ UNCHANGED <<inputVars, loopVars, fetchVars, appearances, frameVars,
                   messages, pureVars>>

\* except Exception: print the failure, go on with the next row
CatchFailure ==
    /\ pc = "except"
    /\ messages' = Append(messages, Failed(player_label))
    /\ idx' = idx + 1
    /\ pc' = "loop"
    /\ UNCHANGED <<inputVars, player_label, href_full, fetchVars, appearances,
                   frameVars, raised, pureVars>>

\* for pr in player_rows: filter and append; sleep; next row
AppendRows ==
    /\ pc = "rows"
    /\ appearances' = appearances \o KeptRecords(player_label, rows)
    /\ rows' = <<>>
    /\ idx' = idx + 1
    /\ pc' = "loop"
    /\ UNCHANGED <<inputVars, player_label, href_full, playwright, browser,
                   page, frameVars, messages, raised, pureVars>>

\* "if not appearances": the no-rows note and return pd.DataFrame()
NoRows ==
    /\ pc = "after_loop"
    /\ appearances = <<>>
    /\ messages' = Append(messages, Note("No appearance rows found"))
    /\ pc' = "done"
    /\ UNCHANGED <<inputVars, loopVars, fetchVars, appearances, frameVars,
                   raised, pureVars>>

\* ------------------------------------- analyze_trupp, after the loop
\* the texts read_csv reads as a missing value (its default na_values)
NaStrings ==
    { <<>>, <<"N", "A">>, <<"N", "/", "A">>, <<"n", "/", "a">>,
      <<"N", "a", "N">>, <<"n", "a", "n">>, <<"-", "N", "a", "N">>,
      <<"-", "n", "a", "n">>, <<"n", "u", "l", "l">>, <<"N", "U", "L", "L">>,
      <<"#", "N", "/", "A">>, <<"#", "N", "A">> }

\* a field read_csv parses as an integer: an optional sign, then digits
IsCsvInt(t) ==
    LET body == IF t # <<>> /\ t[1] \in {"+", "-"} THEN Tail(t) ELSE t
    IN  IsDigit(body)

\* One column written by to_csv and read back by read_csv. The column is
\* numeric when every field is an integer or missing (float64 as soon as one
\* is missing), else it is an object column of str and NaN. The texts of
\* the model hold no decimal point and no exponent.
CsvColumn(texts) ==
    LET n == Len(texts)
        numeric == \A i \in 1..n : texts[i] \in NaStrings \/ IsCsvInt(texts[i])
        holes == \E i \in 1..n : texts[i] \in NaStrings
    IN  [i \in 1..n |->
            IF texts[i] \in NaStrings THEN NaN
            ELSE IF numeric /\ holes THEN PyFloat(10 * IntOfText(texts[i]).val)
            ELSE IF numeric THEN PyInt(IntOfText(texts[i]).val)
            ELSE PyStr(texts[i])]

\* pd.read_csv(app_csv) of the table to_csv wrote, then
\* df_app["matches"].apply(safe_int); the columns the analysis reads
ReloadFrame(table) ==
    LET n == Len(table)
        players == CsvColumn([i \in 1..n |-> table[i].player])
        divisions == CsvColumn([i \in 1..n |-> table[i].division])
        teams == CsvColumn([i \in 1..n |-> table[i].team])
        matches == CsvColumn([i \in 1..n |-> table[i].matches])
    IN  [i \in 1..n |->
            [player |-> players[i], division |-> divisions[i],
             team |-> teams[i], matches |-> safe_int(matches[i]).val]]

\* .str is refused on a column that is not an object column
StrAccessorRaises(df) == \A i \in 1..Len(df) : df[i].division.k # "str"

\* the separation when the division is compared as it is written
IsTotalExact(r) == r.division.k = "str" /\ r.division.s = T_TOTALT

\* df_app["division"].str.upper() == "TOTALT"
IsTotal(r) == r.division.k = "str" /\ Upper(r.division.s) = T_TOTALT

\* ~is_total, division.notna() & (division != "") & (matches > 0)
KeptInWorkingSet(r) ==
    /\ ~IsTotal(r)
    /\ r.division.k # "nan"
    /\ r.division # PyStr(<<>>)
    /\ r.matches > 0

RECURSIVE SumMatches(_, _, _)
SumMatches(df, p, d) ==
    IF df = <<>> THEN 0
    ELSE (IF Head(df).player.s = p /\ Head(df).division.s = d
          THEN Head(df).matches ELSE 0) + SumMatches(Tail(df), p, d)

PlayersOf(df) == {df[i].player.s : i \in 1..Len(df)}

DivisionsOf(df) == {df[i].division.s : i \in 1..Len(df)}

\* the matrix whose cells count the rows instead of summing the matches
PivotCount(df) ==
    [index |-> SortedTexts(PlayersOf(df)),
     columns |-> SortedTexts(DivisionsOf(df)),
     cell |-> [k \in PlayersOf(df) \X DivisionsOf(df) |->
                  Cardinality({i \in 1..Len(df) :
                      df[i].player.s = k[1] /\ df[i].division.s = k[2]})]]

\* df_app.pivot_table(index="player", columns="division", values="matches",
\*                    aggfunc="sum", fill_value=0)
PivotSum(df) ==
    [index |-> SortedTexts(PlayersOf(df)),
     columns |-> SortedTexts(DivisionsOf(df)),
     cell |-> [k \in PlayersOf(df) \X DivisionsOf(df) |->
                  SumMatches(df, k[1], k[2])]]

\* pivot.empty
IsEmpty(m) == m.index = <<>> \/ m.columns = <<>>

\* pivot_plot = pivot.copy(): every division is kept, max_divisions is not read
PivotPlot(pv, maxdiv) == pv

\* pivot.loc[player].sum()
RECURSIVE RowSum(_, _, _)
RowSum(m, p, cols) ==
    IF cols = <<>> THEN 0
    ELSE m.cell[<<p, Head(cols)>>] + RowSum(m, p, Tail(cols))

\* df_total[df_total["player"] == player]
TotalRows(dft, p) == SelectSeq(dft, LAMBDA r : r.player.s = p)

Warning(p, sum, total) == [msg |-> "WARNING", player |-> p, a |-> sum, b |-> total]

\* the validation that warns only when the total exceeds the sum
RECURSIVE WarningsOneSided(_, _, _)
WarningsOneSided(pv, dft, players) ==
    IF players = <<>> THEN <<>>
    ELSE LET p == Head(players)
             tr == TotalRows(dft, p)
             sum == RowSum(pv, p, pv.columns)
         IN  (IF tr # <<>> /\ tr[1].matches > sum
              THEN <<Warning(p, sum, tr[1].matches)>> ELSE <<>>)
             \o WarningsOneSided(pv, dft, Tail(players))

\* the validation loop: what it prints, player by player
RECURSIVE Warnings(_, _, _)
Warnings(pv, dft, players) ==
    IF players = <<>> THEN <<>>
    ELSE LET p == Head(players)
             tr == TotalRows(dft, p)
             sum == RowSum(pv, p, pv.columns)
         IN  (IF tr # <<>> /\ tr[1].matches # sum
              THEN <<Warning(p, sum, tr[1].matches)>> ELSE <<>>)
             \o Warnings(pv, dft, Tail(players))

\* played_flag: 1 if int(x) > 0 else 0
PlayedFlag(x) == IF x > 0 THEN 1 ELSE 0

RECURSIVE MaxFlag(_, _, _)
MaxFlag(df, d, p) ==
    IF df = <<>> THEN 0
    ELSE LET rest == MaxFlag(Tail(df), d, p)
             own == IF Head(df).division.s = d /\ Head(df).player.s = p
                    THEN PlayedFlag(Head(df).matches) ELSE 0
         IN  IF own > rest THEN own ELSE rest

RECURSIVE SumFlag(_, _, _)
SumFlag(df, d, p) ==
    IF df = <<>> THEN 0
    ELSE (IF Head(df).division.s = d /\ Head(df).player.s = p
          THEN PlayedFlag(Head(df).matches) ELSE 0) + SumFlag(Tail(df), d, p)

\* the participation matrix with the teams summed instead of collapsed
ParticipationSum(df) ==
    [index |-> SortedTexts(DivisionsOf(df)),
     columns |-> SortedTexts(PlayersOf(df)),
     cell |-> [k \in DivisionsOf(df) \X PlayersOf(df) |->
                  SumFlag(df, k[1], k[2])]]

\* bin_df.pivot_table(index='division', columns='player',
\*                    values='played_flag', aggfunc='max', fill_value=0)
Participation(df) ==
    [index |-> SortedTexts(DivisionsOf(df)),
     columns |-> SortedTexts(PlayersOf(df)),
     cell |-> [k \in DivisionsOf(df) \X PlayersOf(df) |->
                  MaxFlag(df, k[1], k[2])]]

\* the matrix plotted: every league is kept, max_leagues is not read
LeaguePlot(ppl, maxleagues) == ppl

\* DataFrame(appearances), to_csv, read_csv, safe_int
Reload ==
    /\ pc = "after_loop"
    /\ appearances # <<>>
    /\ app_csv' = <<appearances>>
    /\ df_app' = ReloadFrame(appearances)
    /\ pc' = "separate"
    /\ UNCHANGED <<inputVars, loopVars, fetchVars, appearances, df_total,
                   pivot, chart1, players_per_league, chart2, messages,
                   raised, pureVars>>

\* is_total, df_total, the working set
Separate ==
    /\ pc = "separate"
    /\ IF StrAccessorRaises(df_app)
       THEN /\ raised' = "AttributeError: str"
            /\ pc' = "raised"
            /\ UNCHANGED <<df_app, df_total>>
       ELSE /\ df_total' = SelectSeq(df_app, IsTotal)
            /\ df_app' = SelectSeq(df_app, KeptInWorkingSet)
            /\ pc' = "pivot"
            /\ UNCHANGED raised
    /\ UNCHANGED <<inputVars, loopVars, fetchVars, appearances, app_csv,
                   pivot, chart1, players_per_league, chart2, messages,
                   pureVars>>

\* the player-by-division pivot and its empty check
BuildPivot ==
    /\ pc = "pivot"
    /\ pivot' = PivotSum(df_app)
    /\ IF IsEmpty(PivotSum(df_app))
       THEN /\ messages' = Append(messages, Note("No division appearance data"))
            /\ pc' = "done"
       ELSE /\ pc' = "chart1"
            /\ UNCHANGED messages
    /\ UNCHANGED <<inputVars, loopVars, fetchVars, appearances, app_csv,
                   df_app, df_total, chart1, players_per_league, chart2,
                   raised, pureVars>>

\* the stacked chart of pivot_plot, saved
Chart1 ==
    /\ pc = "chart1"
    /\ chart1' = <<PivotPlot(pivot, max_divisions)>>
    /\ pc' = "validate"
    /\ UNCHANGED <<inputVars, loopVars, fetchVars, appearances, app_csv,
                   df_app, df_total, pivot, players_per_league, chart2,
                   messages, raised, pureVars>>

\* the validation loop over pivot.index
Validate ==
    /\ pc = "validate"
    /\ messages' = messages \o Warnings(pivot, df_total, pivot.index)
    /\ pc' = "participation"
    /\ UNCHANGED <<inputVars, loopVars, fetchVars, appearances, frameVars,
                   raised, pureVars>>

\* the division-by-player pivot and its empty check
BuildParticipation ==
    /\ pc = "participation"
    /\ players_per_league' = Participation(df_app)
    /\ IF IsEmpty(Participation(df_app))
       THEN /\ messages' = Append(messages, Note("No data for players-per-league"))
            /\ pc' = "done"
       ELSE /\ pc' = "chart2"
            /\ UNCHANGED messages
    /\ UNCHANGED <<inputVars, loopVars, fetchVars, appearances, app_csv,
                   df_app, df_total, pivot, chart1, chart2, raised, pureVars>>

\* the players-per-league chart, saved; return df_app
Chart2 ==
    /\ pc = "chart2"
    /\ chart2' = <<LeaguePlot(players_per_league, max_leagues)>>
    /\ pc' = "done"
    /\ UNCHANGED <<inputVars, loopVars, fetchVars, appearances, app_csv,
                   df_app, df_total, pivot, chart1, players_per_league,
                   messages, raised, pureVars>>

Next ==
    \/ LoopExit
    \/ SkipEntry
    \/ PositionRaises
    \/ PrepareFetch
    \/ Launch
    \/ Goto
    \/ GotoRaises
    \/ Extract
    \/ ExtractRaises
    \/ CloseBrowser
    \/ ExitWith
    \/ ExitWithRaise
    \/ CatchFailure
    \/ AppendRows
    \/ NoRows
    \/ Reload
    \/ Separate
    \/ BuildPivot
    \/ Chart1
    \/ Validate
    \/ BuildParticipation
    \/ Chart2

Spec == Init /\ [][Next]_vars

\* ------------------------------------------- the pure functions, applied
\* the characters of the texts handed to safe_int
IntAlphabet == {"0", "1", "7", "-", "+", " ", "_", "a", "."}

\* what a cell of the matches column may hold when safe_int is applied
SafeIntInputs ==
    {PyStr(t) : t \in TextsUpTo(IntAlphabet, MaxLen)}
    \cup {PyInt(n) : n \in (0 - 3)..20}
    \cup {PyFloat(t) : t \in (0 - 25)..25}
    \cup {NaN, PyNone, PyInf}

\* analyze_trupp called with its defaults and nothing to do
Idle ==
    /\ trupp = <<>>
    /\ max_divisions = 8
    /\ max_leagues = 12
    /\ Fresh

InitSafeInt ==
    /\ Idle
    /\ pc = "call"
    /\ arg \in SafeIntInputs
    /\ ret = <<>>

\* one cell through df_app["matches"].apply(safe_int)
CallSafeInt ==
    /\ pc = "call"
    /\ IF safe_int(arg).exc = "none"
       THEN ret' = <<safe_int(arg).val>> /\ pc' = "returned" /\ UNCHANGED raised
       ELSE raised' = safe_int(arg).exc /\ pc' = "raised" /\ UNCHANGED ret
    /\ UNCHANGED <<inputVars, loopVars, fetchVars, appearances, frameVars,
                   messages, arg>>

SpecSafeInt == InitSafeInt /\ [][CallSafeInt]_vars

\* the characters of the competition texts handed to the filter
FilterAlphabet == {" ", "1", "A"}

\* a row dict of player_rows with the competition text c
RowOf(c) ==
    [competition |-> c, team |-> <<"X">>, matches |-> <<"2">>,
     goals |-> <<"0">>, assists |-> <<"0">>, points |-> <<"0">>,
     penalty |-> <<"0">>]

\* player_rows of two rows, any competition texts
InitFilter ==
    /\ Idle
    /\ pc = "rows"
    /\ arg \in TextsUpTo(FilterAlphabet, MaxLen) \X TextsUpTo(FilterAlphabet, MaxLen)
    /\ ret = <<>>

\* the rows reach the loop body of the try block
TakeRows ==
    /\ pc = "rows"
    /\ rows = <<>>
    /\ appearances = <<>>
    /\ arg # <<>>
    /\ rows' = <<RowOf(arg[1]), RowOf(arg[2])>>
    /\ player_label' = <<"F", "-", "A">>
    /\ UNCHANGED <<inputVars, pc, idx, href_full, playwright, browser, page,
                   appearances, frameVars, messages, raised, pureVars>>

NextFilter ==
    \/ TakeRows
    \/ (rows # <<>> /\ AppendRows)

SpecFilter == InitFilter /\ [][NextFilter]_vars

\* ------------------------------------------------------------ the claims
FirstInk(s) == CHOOSE i \in 1..Len(s) :
    s[i] \notin Whitespace /\ \A j \in 1..(i - 1) : s[j] \in Whitespace

LastInk(s) == CHOOSE i \in 1..Len(s) :
    s[i] \notin Whitespace /\ \A j \in (i + 1)..Len(s) : s[j] \in Whitespace

HasInk(s) == \E i \in 1..Len(s) : s[i] \notin Whitespace

\* the text between the first and the last non-blank character
Trimmed(s) == IF HasInk(s) THEN SubSeq(s, FirstInk(s), LastInk(s)) ELSE <<>>

\* after trimming: non-empty and not composed entirely of digits
Appendable(s) ==
    /\ HasInk(s)
    /\ \E i \in FirstInk(s)..LastInk(s) :
          s[i] \notin {"0", "1", "2", "3", "4", "5", "6", "7", "8", "9"}

\* C3: a row is appended to the flat table if and only if its competition,
\* trimmed, is non-empty and not all digits; rows are appended in order and
\* the division of an appended record is the trimmed competition.
C3_FilterKeepsExactlyCompetitions ==
    (pc = "loop" /\ arg # <<>>) =>
        LET kept == SelectSeq(arg, Appendable)
        IN  /\ Len(appearances) = Len(kept)
            /\ \A i \in 1..Len(kept) :
                  /\ appearances[i].division = Trimmed(kept[i])
                  /\ appearances[i].player = player_label
                  /\ appearances[i].team = <<"X">>
                  /\ appearances[i].matches = <<"2">>
            /\ \A i \in 1..Len(appearances) :
                  /\ appearances[i].division # <<>>
                  /\ ~IsDigit(appearances[i].division)

\* C3's case: of a padded row and an all-digit row, the padded one is kept
C3_Witness ==
    /\ pc = "loop"
    /\ arg = << <<" ", "A", " ">>, <<"1", "1">> >>
    /\ Len(appearances) = 1
    /\ appearances[1].division = <<"A">>

RECURSIVE Pow10(_)
Pow10(n) == IF n = 0 THEN 1 ELSE 10 * Pow10(n - 1)

\* a decimal numeral: an optional sign and one or more digits
IsNumeral(s) ==
    LET from == IF s # <<>> /\ s[1] \in {"+", "-"} THEN 2 ELSE 1
    IN  from <= Len(s) /\ \A i \in from..Len(s) : s[i] \in Digits

RECURSIVE PlaceSum(_, _)
PlaceSum(s, i) ==
    IF i > Len(s) THEN 0
    ELSE (IF s[i] \in Digits THEN DigitVal(s[i]) * Pow10(Len(s) - i) ELSE 0)
         + PlaceSum(s, i + 1)

\* the integer a decimal numeral denotes
NumeralValue(s) == IF s[1] = "-" THEN 0 - PlaceSum(s, 1) ELSE PlaceSum(s, 1)

\* a text with no digit at all, or with a letter in it
NonNumeric(s) ==
    \/ \A i \in 1..Len(s) : s[i] \notin Digits
    \/ \E i \in 1..Len(s) : s[i] = "a"

\* C4: safe_int is total: an integer (an int, an integral float, a decimal
\* numeral) comes back as that integer, a non-numeric or missing input as 0,
\* and no exception escapes it.
C4_SafeIntTotal ==
    (pc \in {"returned", "raised"}) =>
        /\ pc = "returned"
        /\ raised = "none"
        /\ Len(ret) = 1
        /\ ret[1] \in Int
        /\ (arg.k = "int" => ret[1] = arg.v)
        /\ (arg.k = "float" /\ arg.v % 10 = 0 => 10 * ret[1] = arg.v)
        /\ (arg.k = "str" /\ IsNumeral(arg.s) => ret[1] = NumeralValue(arg.s))
        /\ (arg.k = "str" /\ NonNumeric(arg.s) => ret[1] = 0)
        /\ (arg.k \in {"nan", "none"} => ret[1] = 0)

\* C4's case: a negative numeral was coerced to its value
C4_Witness ==
    /\ pc = "returned"
    /\ arg = PyStr(<<"-", "1", "7">>)
    /\ ret = <<0 - 17>>

\* the run is past the for loop
AfterLoop ==
    pc \in {"after_loop", "separate", "pivot", "chart1", "validate",
            "participation", "chart2", "done"}

\* the records one player's rows contribute: one per appendable row
RECURSIVE Contribution(_, _)
Contribution(label, prs) ==
    IF prs = <<>> THEN <<>>
    ELSE (IF Appendable(Head(prs).competition)
          THEN <<[player |-> label,
                  division |-> Trimmed(Head(prs).competition),
                  team |-> Head(prs).team, matches |-> Head(prs).matches,
                  goals |-> Head(prs).goals, assists |-> Head(prs).assists,
                  points |-> Head(prs).points, penalty |-> Head(prs).penalty]>>
          ELSE <<>>)
         \o Contribution(label, Tail(prs))

\* C1: a fetch that raises is caught: the flat list is left as it was, the
\* loop goes on with the next roster row and nothing escapes analyze_trupp;
\* a fetch that returns contributes exactly the records of its own rows,
\* whatever happened to the players before; once the loop is left, every
\* roster row has been visited.
C1_FetchFailureIsolated ==
    /\ [](AfterLoop => idx = Len(trupp) + 1)
    /\ [][ /\ (pc = "fetch_raise" =>
                  pc' = "except" /\ appearances' = appearances
                  /\ raised' = "none")
           /\ (pc = "except" =>
                  pc' = "loop" /\ idx' = idx + 1 /\ idx <= Len(trupp)
                  /\ appearances' = appearances /\ raised' = "none")
           /\ (pc = "rows" =>
                  pc' = "loop" /\ idx' = idx + 1
                  /\ appearances' =
                        appearances \o Contribution(player_label, rows)) ]_vars

\* C1's case: the first player's fetch failed, the second player's records
\* are in the flat list and the loop has ended
C1_Witness ==
    /\ pc = "after_loop"
    /\ Len(trupp) = 2
    /\ messages = <<Failed(PlayerLabel(trupp[1]))>>
    /\ Len(appearances) = 2
    /\ appearances[1].player = PlayerLabel(trupp[2])
    /\ PlayerLabel(trupp[1]) # PlayerLabel(trupp[2])

\* the records of the flat table as the analysis reads them back
Frame == ReloadFrame(appearances)

\* a record that is no grand total, has a division and a positive count
Surviving(r) ==
    /\ r.division.k = "str"
    /\ r.division.s # <<>>
    /\ Upper(r.division.s) # T_TOTALT
    /\ r.matches > 0

HasNote(text) == \E i \in 1..Len(messages) : messages[i] = Note(text)

\* C2: every no-data condition ends the run cleanly. With no appearance row
\* at all the run notes it and returns with no artifact written; with no
\* record surviving the separation and the filter the run returns without
\* raising and without a chart.
C2_NoDataEndsCleanly ==
    (pc \in {"done", "raised"} /\ idx > Len(trupp)) =>
        /\ (appearances = <<>> =>
               /\ pc = "done"
               /\ raised = "none"
               /\ HasNote("No appearance rows found")
               /\ app_csv = <<>> /\ chart1 = <<>> /\ chart2 = <<>>)
        /\ (appearances # <<>> /\ SelectSeq(Frame, Surviving) = <<>> =>
               /\ pc = "done"
               /\ raised = "none"
               /\ chart1 = <<>> /\ chart2 = <<>>)

\* the matrix has been built and is not empty
PivotBuilt ==
    pc \in {"chart1", "validate", "participation", "chart2"}
    \/ (pc = "done" /\ chart1 # <<>>)

RECURSIVE SumOfMatches(_, _)
SumOfMatches(df, S) ==
    IF S = {} THEN 0
    ELSE LET i == CHOOSE j \in S : TRUE
         IN  df[i].matches + SumOfMatches(df, S \ {i})

RECURSIVE SumOfCells(_, _, _)
SumOfCells(m, p, D) ==
    IF D = {} THEN 0
    ELSE LET d == CHOOSE e \in D : TRUE
         IN  m.cell[<<p, d>>] + SumOfCells(m, p, D \ {d})

Range(q) == {q[i] : i \in 1..Len(q)}

\* C5: every cell of the player-by-division matrix is a non-negative integer,
\* the sum of the match counts of that player's filtered records of that
\* division (all teams), 0 where there is none; a player's row sums to the
\* match counts of all of that player's filtered records.
C5_PivotCellsAreSums ==
    PivotBuilt =>
        /\ Range(pivot.index) = {df_app[i].player.s : i \in 1..Len(df_app)}
        /\ Range(pivot.columns) = {df_app[i].division.s : i \in 1..Len(df_app)}
        /\ \A p \in Range(pivot.index) :
              /\ \A d \in Range(pivot.columns) :
                    /\ pivot.cell[<<p, d>>] \in Nat
                    /\ pivot.cell[<<p, d>>] =
                          SumOfMatches(df_app,
                              {i \in 1..Len(df_app) :
                                  df_app[i].player.s = p
                                  /\ df_app[i].division.s = d})
              /\ SumOfCells(pivot, p, Range(pivot.columns)) =
                    SumOfMatches(df_app,
                        {i \in 1..Len(df_app) : df_app[i].player.s = p})

\* C5's case: two team entries of one player and division summed in a cell
C5_Witness ==
    /\ pc = "done"
    /\ chart1 # <<>>
    /\ Len(df_app) = 2
    /\ df_app[1].team # df_app[2].team
    /\ pivot.index = <<df_app[1].player.s>>
    /\ pivot.cell[<<df_app[1].player.s, T_Div1>>] = 5

\* the participation matrix has been built and is not empty
ParticipationBuilt == pc = "chart2" \/ (pc = "done" /\ chart2 # <<>>)

\* C6: the division-by-player matrix has the divisions and the players of
\* the surviving records; every cell is 0 or 1, and it is 1 exactly when
\* some appearance record of that division and player has a match count
\* above 0, however many team entries the pair has.
C6_ParticipationCells ==
    ParticipationBuilt =>
        LET fr == Frame
            kept == {j \in 1..Len(fr) : Surviving(fr[j])}
        IN  /\ Range(players_per_league.index) = {fr[i].division.s : i \in kept}
            /\ Range(players_per_league.columns) = {fr[i].player.s : i \in kept}
            /\ \A d \in Range(players_per_league.index) :
                  \A p \in Range(players_per_league.columns) :
                      /\ players_per_league.cell[<<d, p>>] \in {0, 1}
                      /\ players_per_league.cell[<<d, p>>] = 1 <=>
                            \E i \in 1..Len(fr) :
                                /\ fr[i].division = PyStr(d)
                                /\ fr[i].player = PyStr(p)
                                /\ fr[i].matches > 0

\* C6's case: two players in two divisions, cells of 1 and of 0
C6_Witness ==
    /\ pc = "done"
    /\ chart2 # <<>>
    /\ Len(players_per_league.index) = 2
    /\ Len(players_per_league.columns) = 2
    /\ \E d \in Range(players_per_league.index) :
          \E p, q \in Range(players_per_league.columns) :
              /\ players_per_league.cell[<<d, p>>] = 1
              /\ players_per_league.cell[<<d, q>>] = 0

RECURSIVE ColumnTotal(_, _, _)
ColumnTotal(m, rws, c) ==
    IF rws = <<>> THEN 0
    ELSE m.cell[<<Head(rws), c>>] + ColumnTotal(m, Tail(rws), c)

RECURSIVE RowTotal(_, _, _)
RowTotal(m, r, cols) ==
    IF cols = <<>> THEN 0
    ELSE m.cell[<<r, Head(cols)>>] + RowTotal(m, r, Tail(cols))

\* x put into a sequence sorted by descending key, after its equals
RECURSIVE InsertDesc(_, _, _)
InsertDesc(x, sorted, key) ==
    IF sorted = <<>> THEN <<x>>
    ELSE IF key[Head(sorted)] >= key[x]
    THEN <<Head(sorted)>> \o InsertDesc(x, Tail(sorted), key)
    ELSE <<x>> \o sorted

\* a stable sort by descending key
RECURSIVE SortDesc(_, _)
SortDesc(q, key) ==
    IF q = <<>> THEN <<>>
    ELSE InsertDesc(q[Len(q)], SortDesc(SubSeq(q, 1, Len(q) - 1), key), key)

\* the first n of q when n caps it, all of q otherwise
TopN(q, key, n) ==
    IF n > 0 /\ Len(q) > n THEN SubSeq(SortDesc(q, key), 1, n) ELSE q

\* C7: with max_divisions = N > 0 and more than N divisions, the matrix
\* handed to the chart keeps exactly the N divisions of largest total match
\* count, in descending order, ties in encounter order; with 0 all are kept.
C7_ColumnCap ==
    chart1 # <<>> =>
        chart1[1].columns =
            TopN(pivot.columns,
                 [d \in Range(pivot.columns) |->
                     ColumnTotal(pivot, pivot.index, d)],
                 max_divisions)

\* C8: with max_leagues = N > 0 and more than N divisions, the matrix handed
\* to the chart keeps exactly the N divisions of largest distinct-player
\* count, in descending order; with 0 all are kept.
C8_RowCap ==
    chart2 # <<>> =>
        chart2[1].index =
            TopN(players_per_league.index,
                 [d \in Range(players_per_league.index) |->
                     RowTotal(players_per_league, d,
                              players_per_league.columns)],
                 max_leagues)

\* the validation loop has run
Validated == pc \in {"participation", "chart2"} \/ (pc = "done" /\ chart2 # <<>>)

\* the rows of the reloaded table fr that are grand totals of player p
TotalsOf(fr, p) ==
    SelectSeq(fr, LAMBDA r : r.player = PyStr(p) /\ r.division.k = "str"
                             /\ Upper(r.division.s) = T_TOTALT)

WarningsFor(p) ==
    SelectSeq(messages, LAMBDA w : w.msg = "WARNING" /\ w.player = p)

\* the flat table without its grand-total records
WithoutTotals(table) ==
    SelectSeq(table, LAMBDA r : Upper(r.division) # T_TOTALT)

\* C9: for every player of the matrix with a TOTALT record (the player's
\* first one), a warning is printed exactly when the row sum differs from
\* the record's match count, and it names the computed sum and the expected
\* total; the run goes on and the charts are those of the table without its
\* TOTALT records.
C9_ValidationWarnsOnMismatch ==
    Validated =>
        LET fr == Frame
            kept == SelectSeq(ReloadFrame(WithoutTotals(appearances)),
                              KeptInWorkingSet)
        IN  /\ raised = "none"
            /\ \A p \in Range(pivot.index) :
                  LET sum == SumOfCells(pivot, p, Range(pivot.columns))
                      totals == TotalsOf(fr, p)
                      warned == WarningsFor(p)
                  IN  IF totals = <<>> THEN warned = <<>>
                      ELSE /\ warned # <<>> <=> sum # totals[1].matches
                           /\ \A i \in 1..Len(warned) :
                                 /\ warned[i].a = sum
                                 /\ warned[i].b = totals[1].matches
            /\ \A i \in 1..Len(messages) :
                  messages[i].msg = "WARNING" =>
                      messages[i].player \in Range(pivot.index)
            /\ chart1 = <<PivotSum(kept)>>
            /\ (pc = "done" => chart2 = <<Participation(kept)>>)

\* C9's case: a player with 3 matches in divisions and a TOTALT of 2 was
\* warned about, and both charts were written
C9_Witness ==
    /\ pc = "done"
    /\ chart1 # <<>>
    /\ chart2 # <<>>
    /\ \E i \in 1..Len(messages) :
          /\ messages[i].msg = "WARNING"
          /\ messages[i].a = 3
          /\ messages[i].b = 2

\* fetch_player_appearances is running
InFetch == pc \in {"goto", "extract", "close", "exit_with", "fetch_raise"}

\* C10: once fetch_player_appearances has been left, by return or by an
\* exception, the Playwright session is stopped and the browser it launched
\* is no longer open.
C10_BrowserReleased ==
    (~InFetch /\ playwright # "none") =>
        playwright = "stopped" /\ browser \in {"closed", "reaped"}

\* C10's case: navigation raised, the function was left by the exception
C10_Witness ==
    /\ pc = "except"
    /\ playwright = "stopped"
    /\ browser = "reaped"

\* ------------------------------------------------- column resolution
\* s without its i-th element
Without(s, i) == SubSeq(s, 1, i - 1) \o SubSeq(s, i + 1, Len(s))

\* the header rows a season table may have: none, the site's, the site's in
\* upper case, the site's with one header missing, with the first two swapped
HeaderRows ==
    {<<>>, StdHeaders, [i \in 1..Len(StdHeaders) |-> Upper(StdHeaders[i])],
     <<StdHeaders[2], StdHeaders[1]>> \o SubSeq(StdHeaders, 3, 7)}
    \cup {Without(StdHeaders, i) : i \in 1..Len(StdHeaders)}

\* the body rows of such a table: full rows and a row of two cells
ColumnRows == BodyRows \cup {<<T_Div1, <<"X">>>>}

\* a player page with one season table of one body row has been loaded
InitColumns ==
    /\ trupp = <<>>
    /\ max_divisions = 8
    /\ max_leagues = 12
    /\ pc = "extract"
    /\ idx = 1
    /\ player_label = <<>>
    /\ href_full = <<>>
    /\ playwright = "running"
    /\ browser = "open"
    /\ arg \in HeaderRows \X ColumnRows
    /\ page = <<[season |-> Table(arg[1], <<arg[2]>>), first |-> NoTable]>>
    /\ rows = <<>>
    /\ appearances = <<>>
    /\ app_csv = <<>>
    /\ df_app = <<>>
    /\ df_total = <<>>
    /\ pivot = EmptyMatrix
    /\ chart1 = <<>>
    /\ players_per_league = EmptyMatrix
    /\ chart2 = <<>>
    /\ messages = <<>>
    /\ raised = "none"
    /\ ret = <<>>

\* the rest of fetch_player_appearances
NextColumns ==
    \/ Extract
    \/ CloseBrowser
    \/ ExitWith

SpecColumns == InitColumns /\ [][NextColumns]_vars

\* the header names of the seven fields, in the order of their fixed indices
FieldKeys ==
    << <<"t", "ä", "v", "l", "i", "n", "g">>, <<"l", "a", "g">>, <<"m", "a">>,
       <<"m", "å">>, <<"a", "s", "s">>, <<"p">>, <<"u", "t", "v">> >>

\* the seven fields of a row dict, in that order
FieldsOf(r) ==
    <<r.competition, r.team, r.matches, r.goals, r.assists, r.points,
      r.penalty>>

\* the header row has a header that reads key once lower-cased
HeaderPresent(headers, key) ==
    \E i \in 1..Len(headers) : Lower(Strip(headers[i])) = key

HeaderColumn(headers, key) ==
    CHOOSE i \in 1..Len(headers) : Lower(Strip(headers[i])) = key

\* the extraction of the table of arg has run
ColumnsRead == arg # <<>> /\ pc \in {"close", "exit_with", "rows"}

\* C11: a body row that is not skipped yields one row dict; each field whose
\* header is present holds the trimmed text of that header's column, and
\* each field whose header is absent (also when the table has no header row)
\* holds the trimmed text of the cell at its fixed index 0..6.
C11_ColumnResolution ==
    (ColumnsRead /\ ~RowSkipped(arg[1], arg[2])) =>
        /\ Len(rows) = 1
        /\ \A k \in 1..7 :
              IF HeaderPresent(arg[1], FieldKeys[k])
              THEN FieldsOf(rows[1])[k] =
                       Strip(arg[2][HeaderColumn(arg[1], FieldKeys[k])])
              ELSE k <= Len(arg[2]) =>
                       FieldsOf(rows[1])[k] = Strip(arg[2][k])

\* the half of C11 that the code keeps: a present header names the column
C11_PresentHeaderNamesColumn ==
    (ColumnsRead /\ ~RowSkipped(arg[1], arg[2])) =>
        /\ Len(rows) = 1
        /\ \A k \in 1..7 :
              HeaderPresent(arg[1], FieldKeys[k]) =>
                  FieldsOf(rows[1])[k] =
                      Strip(arg[2][HeaderColumn(arg[1], FieldKeys[k])])

\* ---------------------------------------------- position classification
\* the prefix a position value stands for: F, B or M by the first of forw,
\* back, mål found in it whatever the case, ? otherwise and when it is missing
ExpectedPrefix(position) ==
    IF position.k # "str" THEN <<"?">>
    ELSE IF \E i \in 1..Len(position.s) :
               i + 3 <= Len(position.s)
               /\ Lower(SubSeq(position.s, i, i + 3)) = <<"f", "o", "r", "w">>
    THEN <<"F">>
    ELSE IF \E i \in 1..Len(position.s) :
               i + 3 <= Len(position.s)
               /\ Lower(SubSeq(position.s, i, i + 3)) = <<"b", "a", "c", "k">>
    THEN <<"B">>
    ELSE IF \E i \in 1..Len(position.s) :
               i + 2 <= Len(position.s)
               /\ Lower(SubSeq(position.s, i, i + 2)) = <<"m", "å", "l">>
    THEN <<"M">>
    ELSE <<"?">>

\* the roster row at idx has a link, and the loop body is done with its label
LabelDue ==
    /\ idx <= Len(trupp)
    /\ ~HrefBlank(trupp[idx].href)
    /\ pc # "loop"

\* C12: for every roster row with a non-blank href the label is computed
\* without an exception leaving analyze_trupp, and its prefix is the one of
\* F, B, M, ? that the position value stands for, ? for a missing position.
C12_PositionTotal ==
    LabelDue =>
        /\ raised = "none"
        /\ pc # "raised"
        /\ player_label # <<>>
        /\ <<player_label[1]>> = ExpectedPrefix(trupp[idx].position)

\* ------------------------------------------------------ link resolution
T_Forward == <<"F", "o", "r", "w", "a", "r", "d">>

\* the characters a link goes on with
HrefAlphabet == {"/", "5", "x", " "}

\* how a link starts: nothing, a slash, http (the site's own scheme or the
\* first letters of a path), another scheme, a blank
HrefStarts ==
    {<<>>, <<"/">>, T_http, T_http \o <<"s", ":", "/", "/", "s">>,
     <<"f", "t", "p", ":">>, <<" ">>}

\* the href cells of a roster: texts, and the missing values of a CSV cell
\* and of a scraped row without an anchor
Hrefs ==
    {PyStr(p \o t) : p \in HrefStarts, t \in TextsUpTo(HrefAlphabet, MaxLen)}
    \cup {NaN, PyNone}

\* analyze_trupp called on a roster of one forward
InitLink ==
    /\ \E h \in Hrefs :
          trupp = <<Entry(PyNone, PyStr(<<"A">>), PyStr(T_Forward), h)>>
    /\ max_divisions = 8
    /\ max_leagues = 12
    /\ pc = "loop"
    /\ Fresh
    /\ arg = <<>>
    /\ ret = <<>>

\* the loop body up to the call of fetch_player_appearances
NextLink ==
    \/ SkipEntry
    \/ PrepareFetch

SpecLink == InitLink /\ [][NextLink]_vars

Letters == {LowerSeq[i] : i \in 1..26} \cup {UpperSeq[i] : i \in 1..26}

\* s starts with a URL scheme: a letter, then letters, digits, + - . up to
\* a colon
HasScheme(s) ==
    \E i \in 2..Len(s) :
        /\ s[i] = ":"
        /\ s[1] \in Letters
        /\ \A j \in 2..(i - 1) : s[j] \in Letters \cup Digits \cup {"+", "-", "."}

\* a missing href, or a text of blanks only
NoLink(h) == h.k # "str" \/ \A i \in 1..Len(h.s) : h.s[i] \in Whitespace

\* the URL the link stands for
ExpectedUrl(s) ==
    IF s[1] = "/" THEN BASE_URL \o s
    ELSE IF HasScheme(s) THEN s
    ELSE BASE_URL \o <<"/">> \o s

\* C13: a roster row whose href is missing or blank is passed over with no
\* fetch; any other href is fetched at base URL + href when it starts with
\* a slash, unchanged when it starts with a scheme, at base URL + "/" + href
\* otherwise, so that the URL handed to the page fetcher is absolute.
C13_LinkResolution ==
    /\ (pc = "loop" /\ idx = 2) => NoLink(trupp[1].href) /\ href_full = <<>>
    /\ pc = "fetch" =>
          /\ ~NoLink(trupp[idx].href)
          /\ href_full = ExpectedUrl(trupp[idx].href.s)
          /\ HasScheme(href_full)

\* what the code keeps of C13: the test for a scheme is the test for the
\* four letters http
C13_HttpPrefixUnchanged ==
    /\ (pc = "loop" /\ idx = 2) => NoLink(trupp[1].href) /\ href_full = <<>>
    /\ pc = "fetch" =>
          /\ ~NoLink(trupp[idx].href)
          /\ href_full =
                (LET s == trupp[idx].href.s
                 IN  IF s[1] = "/" THEN BASE_URL \o s
                     ELSE IF Len(s) >= 4 /\ SubSeq(s, 1, 4) = T_http THEN s
                     ELSE BASE_URL \o <<"/">> \o s)

\* ---------------------------------------------------------- scrape_roster
T_Nr == <<"N", "r">>

T_Namn == <<"N", "a", "m", "n">>

T_Position == <<"P", "o", "s", "i", "t", "i", "o", "n">>

T_unfold_more == <<"u", "n", "f", "o", "l", "d", "_", "m", "o", "r", "e">>

T_expand_less == <<"e", "x", "p", "a", "n", "d", "_", "l", "e", "s", "s">>

\* re.sub(r"(expand_less|unfold_more)", "", h)
RECURSIVE RemoveMarkers(_)
RemoveMarkers(h) ==
    IF h = <<>> THEN <<>>
    ELSE IF StartsWith(h, T_expand_less)
    THEN RemoveMarkers(SubSeq(h, Len(T_expand_less) + 1, Len(h)))
    ELSE IF StartsWith(h, T_unfold_more)
    THEN RemoveMarkers(SubSeq(h, Len(T_unfold_more) + 1, Len(h)))
    ELSE <<Head(h)>> \o RemoveMarkers(Tail(h))

\* clean_header of th.inner_text().strip()
clean_header(h) == Strip(RemoveMarkers(Lower(Strip(h))))

clean_headers(headers) == [i \in 1..Len(headers) |-> clean_header(headers[i])]

\* a td of the roster table: its text and the href of the anchor in it,
\* None without an anchor
Td(text, a) == [text |-> text, a |-> a]

\* cols of a body row
Cols(tds) == [i \in 1..Len(tds) |-> Strip(tds[i].text)]

\* "if not tds or len(tds) < 2: continue"
RosterRowSkipped(tds) == tds = <<>> \/ Len(tds) < 2

\* "row[h] = cols[i]" for an i past the row's last cell: IndexError
RowIndexError(keys, tds) ==
    \E i \in 1..Len(keys) : ColMap(keys, keys[i]) > Len(tds)

\* the row dict of one body row, as analyze_trupp reads it: namn (None when
\* the table has no such column), name, position, href
ScrapedRow(keys, tds) ==
    LET cols == Cols(tds)
        namn == <<"n", "a", "m", "n">>
        position == <<"p", "o", "s", "i", "t", "i", "o", "n">>
    IN  Entry(IF InColMap(keys, namn) THEN PyStr(cols[ColMap(keys, namn)])
              ELSE PyNone,
              IF InColMap(keys, namn) THEN PyStr(cols[ColMap(keys, namn)])
              ELSE PyStr(cols[2]),
              IF InColMap(keys, position)
              THEN PyStr(cols[ColMap(keys, position)]) ELSE PyNone,
              IF InColMap(keys, namn) THEN tds[ColMap(keys, namn)].a
              ELSE PyNone)

\* the body of "for tr in ...": the rows appended, or the exception raised
RECURSIVE ScrapedRows(_, _)
ScrapedRows(keys, trs) ==
    IF trs = <<>> THEN [exc |-> "none", rows |-> <<>>]
    ELSE IF RosterRowSkipped(Head(trs)) THEN ScrapedRows(keys, Tail(trs))
    ELSE IF RowIndexError(keys, Head(trs))
    THEN [exc |-> "IndexError", rows |-> <<>>]
    ELSE LET rest == ScrapedRows(keys, Tail(trs))
         IN  [exc |-> rest.exc,
              rows |-> IF rest.exc = "none"
                       THEN <<ScrapedRow(keys, Head(trs))>> \o rest.rows
                       ELSE <<>>]

\* scrape_roster(url) on a page whose first table is t (or that has none)
scrape_roster(t) ==
    IF t.present THEN ScrapedRows(clean_headers(t.headers), t.rows)
    ELSE [exc |-> "none", rows |-> <<>>]

\* ------------------------------------------------- processing.py, main
\* unicodedata.normalize("NFKC", .) on one character: the ordinal
\* indicator is a compatibility form of a
NFKCChar(c) == IF c = "ª" THEN "a" ELSE c

NFKC(s) == [i \in 1..Len(s) |-> NFKCChar(s[i])]

\* " ".join(s.split())
RECURSIVE JoinSplit(_)
JoinSplit(s) ==
    IF Strip(s) = <<>> THEN <<>>
    ELSE LET t == Strip(s)
         IN  IF Len(t) > 1 /\ t[2] \in Whitespace
             THEN <<t[1], " ">> \o JoinSplit(SubSeq(t, 3, Len(t)))
             ELSE <<t[1]>> \o JoinSplit(Tail(t))

\* normalize_name: a falsy name is returned as it is, a name that is no
\* str makes unicodedata.normalize raise
normalize_name(name) ==
    IF ~Truthy(name) THEN [exc |-> "none", val |-> name]
    ELSE IF name.k # "str" THEN [exc |-> "TypeError", val |-> name]
    ELSE [exc |-> "none", val |-> PyStr(JoinSplit(Strip(NFKC(name.s))))]

\* clean_trupp: the name column normalized, every other column as it is
clean_trupp(df) ==
    [exc |-> IF \E i \in 1..Len(df) : normalize_name(df[i].name).exc # "none"
             THEN "TypeError" ELSE "none",
     rows |-> [i \in 1..Len(df) |->
                  [df[i] EXCEPT !.name = normalize_name(df[i].name).val]]]

\* the field to_csv writes for a cell: nothing for None and NaN
CsvField(x) == IF x.k = "str" THEN x.s ELSE <<>>

\* save_csv(trupp, "trupp.csv") and pd.read_csv of it; a column the frame
\* never had stays absent (None on row.get)
RosterCsv(df) ==
    LET n == Len(df)
        absent == \A i \in 1..n : df[i].namn.k = "none"
        namn == CsvColumn([i \in 1..n |-> CsvField(df[i].namn)])
        name == CsvColumn([i \in 1..n |-> CsvField(df[i].name)])
        position == CsvColumn([i \in 1..n |-> CsvField(df[i].position)])
        href == CsvColumn([i \in 1..n |-> CsvField(df[i].href)])
    IN  [i \in 1..n |->
            Entry(IF absent THEN PyNone ELSE namn[i], name[i], position[i],
                  href[i])]

\* the characters of a name cell of the roster page
NameAlphabet == {"A", "ª", " ", "\t"}

\* the header rows of the roster page: the site's with its sort marker,
\* one without a position column, one without a name column
RosterHeaderRows ==
    { <<T_Nr, T_Namn \o T_unfold_more, T_Position>>,
      <<T_Nr, T_Namn>>,
      <<T_Nr>> }

\* a roster page of one player: number, name with its link, position
LabelTables ==
    { Table(h, << <<Td(<<"7">>, PyNone), Td(n, PyStr(<<"/", "5">>)),
                    Td(T_Forward, PyNone)>> >>) :
          h \in RosterHeaderRows, n \in TextsUpTo(NameAlphabet, MaxLen) }

\* the player page of the labeling runs: one season row
LabelPages ==
    {[season |-> Table(StdHeaders, <<Cells(T_Div1, <<"X">>, <<"2">>)>>),
      first |-> NoTable]}

\* A run from the command line. With --team-url analyze_players.py scrapes
\* the roster itself; without, it reads the trupp.csv that main.py wrote.
InitLabel ==
    /\ trupp = <<>>
    /\ max_divisions = 8
    /\ max_leagues = 12
    /\ Fresh
    /\ \E src \in {"url", "file"}, t \in LabelTables :
          /\ arg = [source |-> src, table |-> t]
          /\ pc = IF src = "url" THEN "main" ELSE "fetch_main"
    /\ ret = <<>>

\* src/main.py main(): the roster scraped, cleaned and saved as trupp.csv;
\* nothing is saved when the scrape raises or finds no player
FetchMain ==
    /\ pc = "fetch_main"
    /\ LET r == scrape_roster(arg.table)
       IN  ret' = IF r.exc # "none" \/ r.rows = <<>>
                     \/ clean_trupp(r.rows).exc # "none"
                  THEN <<>>
                  ELSE <<clean_trupp(r.rows).rows>>
    /\ pc' = "main"
    /\ UNCHANGED <<inputVars, loopVars, fetchVars, appearances, frameVars,
                   messages, raised, arg>>

\* analyze_players.py main() with --team-url
MainScrape ==
    /\ pc = "main"
    /\ arg.source = "url"
    /\ LET r == scrape_roster(arg.table)
       IN  IF r.exc # "none"
           THEN /\ raised' = r.exc
                /\ pc' = "raised"
                /\ UNCHANGED <<trupp, messages>>
           ELSE IF r.rows = <<>>
           THEN /\ messages' =
                      Append(messages, Note("Failed to scrape roster from URL"))
                /\ pc' = "done"
                /\ UNCHANGED <<trupp, raised>>
           ELSE /\ trupp' = r.rows
                /\ pc' = "loop"
                /\ UNCHANGED <<messages, raised>>
    /\ UNCHANGED <<max_divisions, max_leagues, loopVars, fetchVars,
                   appearances, frameVars, pureVars>>

\* analyze_players.py main() with --trupp
MainRead ==
    /\ pc = "main"
    /\ arg.source = "file"
    /\ IF ret = <<>>
       THEN /\ messages' = Append(messages, Note("Roster CSV not found"))
            /\ pc' = "done"
            /\ UNCHANGED trupp
       ELSE /\ trupp' = RosterCsv(ret[1])
            /\ pc' = "loop"
            /\ UNCHANGED messages
    /\ UNCHANGED <<max_divisions, max_leagues, loopVars, fetchVars,
                   appearances, frameVars, raised, pureVars>>

NextLabel ==
    \/ FetchMain
    \/ MainScrape
    \/ MainRead
    \/ SkipEntry
    \/ PositionRaises
    \/ PrepareFetch
    \/ Launch
    \/ GotoFrom(LabelPages)
    \/ Extract
    \/ CloseBrowser
    \/ ExitWith
    \/ AppendRows

SpecLabel == InitLabel /\ [][NextLabel]_vars

\* the words of a text: its maximal runs of characters that are no blanks
RECURSIVE Words(_)
Words(s) ==
    IF \A i \in 1..Len(s) : s[i] \in Whitespace THEN <<>>
    ELSE LET a == CHOOSE i \in 1..Len(s) :
                      s[i] \notin Whitespace
                      /\ \A j \in 1..(i - 1) : s[j] \in Whitespace
             b == CHOOSE i \in a..Len(s) :
                      (i = Len(s) \/ s[i + 1] \in Whitespace)
                      /\ \A j \in a..i : s[j] \notin Whitespace
         IN  <<SubSeq(s, a, b)>> \o Words(SubSeq(s, b + 1, Len(s)))

RECURSIVE Spaced(_)
Spaced(ws) ==
    IF ws = <<>> THEN <<>>
    ELSE IF Len(ws) = 1 THEN ws[1]
    ELSE ws[1] \o <<" ">> \o Spaced(Tail(ws))

\* the normalized form of a name: compatibility characters replaced, its
\* words separated by single spaces
NormalizedName(s) ==
    Spaced(Words([i \in 1..Len(s) |-> IF s[i] = "ª" THEN "a" ELSE s[i]]))

\* the name the roster page shows for the player of the run
PageName == arg.table.rows[1][2].text

\* C14: on both paths from the command line to analyze_trupp, the player
\* field of every appearance record is the position prefix, a dash and the
\* normalized name of the roster entry.
C14_LabelIsNormalized ==
    \A i \in 1..Len(appearances) :
        appearances[i].player =
            <<"F", "-">> \o NormalizedName(PageName)

\* ------------------------------------------------------ TOTALT separation
T_totalt == <<"t", "o", "t", "a", "l", "t">>

\* the text reads TOTALT whatever the case of its letters
ReadsTotalt(s) ==
    Len(s) = 6 /\ \A i \in 1..6 : s[i] \in {T_TOTALT[i], T_totalt[i]}

\* a record of the reloaded table that is a grand total
GrandTotal(r) == r.division.k = "str" /\ ReadsTotalt(r.division.s)

\* the separation and the filter have run
Separated ==
    pc \in {"pivot", "chart1", "validate", "participation", "chart2", "done"}

\* C15: once the table is separated, the reference-total table holds exactly
\* the records whose division reads TOTALT in any case and the working set
\* none of them; the working set holds no record with a missing or empty
\* division and none with a match count of 0 or less; no division of either
\* matrix reads TOTALT, and a player's matrix row sums to the match counts
\* of that player's records that are no grand total.
C15_TotaltSeparated ==
    Separated =>
        LET fr == Frame
        IN  /\ df_total = SelectSeq(fr, GrandTotal)
            /\ \A i \in 1..Len(df_app) :
                  /\ ~GrandTotal(df_app[i])
                  /\ df_app[i].division.k = "str"
                  /\ df_app[i].division.s # <<>>
                  /\ df_app[i].matches > 0
            /\ df_app = SelectSeq(fr, LAMBDA r : ~GrandTotal(r)
                                                /\ r.division.k = "str"
                                                /\ r.division.s # <<>>
                                                /\ r.matches > 0)
            /\ \A d \in Range(pivot.columns)
                         \cup Range(players_per_league.index) :
                  ~ReadsTotalt(d)
            /\ \A p \in Range(pivot.index) :
                  SumOfCells(pivot, p, Range(pivot.columns)) =
                      SumOfMatches(fr,
                          {i \in 1..Len(fr) :
                              /\ fr[i].player = PyStr(p)
                              /\ ~GrandTotal(fr[i])
                              /\ fr[i].division.k = "str"
                              /\ fr[i].matches > 0})

\* C15's case: a run with a division record and a grand total written
\* Totalt, both charts written
C15_Witness ==
    /\ pc = "done"
    /\ chart2 # <<>>
    /\ Len(df_total) = 1
    /\ df_total[1].division.s = T_Totalt
    /\ df_total[1].matches > 0
    /\ Len(df_app) = 1
    /\ pivot.columns = <<T_Div1>>

\* ------------------------------------------- one record per combination
\* C16: no two records of the flat appearance list have the same player,
\* division and team; with it a player has at most one TOTALT record per
\* team, the team of a grand-total row being empty.
C16_OneRecordPerCombination ==
    \A i, j \in 1..Len(appearances) :
        i < j =>
            ~ /\ appearances[i].player = appearances[j].player
              /\ appearances[i].division = appearances[j].division
              /\ appearances[i].team = appearances[j].team

\* ------------------------------------------------------ sequential fetching
\* C17: a browser is open only inside fetch_player_appearances; a session is
\* opened only when no earlier session is still running and no earlier
\* browser still open, also after a fetch that failed; each session
\* navigates once, to the link of the roster row the loop is at, and the
\* loop goes through the roster rows in order.
C17_SequentialFetching ==
    /\ [](browser = "open" \/ playwright = "running" => InFetch)
    /\ [][ /\ idx' \in {idx, idx + 1}
           /\ (pc = "fetch" /\ pc' = "goto" =>
                  /\ playwright \in {"none", "stopped"}
                  /\ browser \in {"none", "closed", "reaped"}
                  /\ browser' = "open"
                  /\ idx' = idx)
           /\ (pc = "goto" /\ pc' = "extract" =>
                  /\ page = <<>>
                  /\ page' # <<>>
                  /\ idx' = idx
                  /\ href_full = HrefFull(trupp[idx].href.s))
           /\ (pc # "goto" => page' = <<>> \/ page' = page) ]_vars

\* C17's case: the first player's fetch failed and the second player's
\* session is open
C17_Witness ==
    /\ pc = "goto"
    /\ idx = 2
    /\ browser = "open"
    /\ messages = <<Failed(PlayerLabel(trupp[1]))>>

\* ------------------------------------------------- roster table shapes
\* the body rows of a roster page: full rows with and without a link, rows
\* cut short after two cells and after one, a row without cells
RosterBodyRows ==
    { <<Td(<<"7">>, PyNone), Td(<<"A">>, PyStr(<<"/", "5">>)),
        Td(T_Forward, PyNone)>>,
      <<Td(<<"8">>, PyNone), Td(<<"B">>, PyNone),
        Td(<<"b", "a", "c", "k">>, PyNone)>>,
      <<Td(<<"7">>, PyNone), Td(<<"A">>, PyStr(<<"/", "5">>))>>,
      <<Td(<<"7">>, PyNone)>>,
      <<>> }

RosterTables ==
    {NoTable}
    \cup {Table(h, r) : h \in RosterHeaderRows \cup {<<>>},
                        r \in UNION {[1..k -> RosterBodyRows] : k \in 0..MaxRows}}

\* analyze_players.py run with --team-url on a roster page
InitRoster ==
    /\ trupp = <<>>
    /\ max_divisions = 8
    /\ max_leagues = 12
    /\ pc = "main"
    /\ Fresh
    /\ \E t \in RosterTables : arg = [source |-> "url", table |-> t]
    /\ ret = <<>>

SpecRoster == InitRoster /\ [][MainScrape]_vars

\* a body row with fewer cells than the table has headers
Truncated(t, i) == Len(t.rows[i]) < Len(t.headers)

\* scrape_roster has returned or raised
RosterScraped == pc \in {"loop", "done", "raised"}

\* C18: scrape_roster never reads a body row past its last cell: no
\* IndexError leaves it, and the frame it returns has one row for every
\* body row of two cells or more that is not truncated, the truncated rows
\* being skipped.
C18_RowsReadWithinBounds ==
    RosterScraped =>
        /\ raised = "none"
        /\ Len(trupp) =
              Cardinality({i \in 1..Len(arg.table.rows) :
                              /\ Len(arg.table.rows[i]) >= 2
                              /\ ~Truncated(arg.table, i)})

====
